---- MODULE Spec2Model ----
(***************************************************************************)
(* Model of the BadgerDB buffer manager, src/BufMgr/src/buffer.cpp.        *)
(*                                                                         *)
(* The state is the BufMgr object (descriptor table, frame index, clock    *)
(* hand) and the pages that exist in each file.  Every public method is    *)
(* one action that performs the whole call, allocBuf() included.  Two      *)
(* observation variables record the last call: op (its arguments and       *)
(* outcome) and io (the file I/O and frame events it issued, in order).    *)
(***************************************************************************)
EXTENDS Integers, Sequences, FiniteSets, TLC

\* ---------------------------------------------------------------- bounds
NumBufs == 2        \* bufs, the constructor's argument
MaxPin == 2         \* pinCnt is capped: no fetch of a page pinned MaxPin times
MaxSweeps == 3      \* passes of allocBuf's while(true) loop that are followed
MaxHist == 5        \* calls of a scenario that are recorded

Files == {"F", "G"}
PageIds == {0, 1}
FrameIds == 0 .. (NumBufs - 1)

NoFile == "NULL"
NoFrame == -1
InvalidPageNo == -1

VARIABLES bufDescTable, hashTable, clockHand, disk, op, io, hist

vars == <<bufDescTable, hashTable, clockHand, disk, op, io, hist>>

\* ------------------------------------------------------------ BufDesc
\* BufDesc::Clear(): the invalid state.
Clear ==
  [file |-> NoFile, pageNo |-> InvalidPageNo, pinCnt |-> 0,
   dirty |-> FALSE, valid |-> FALSE, refbit |-> FALSE]

\* BufDesc::Set(file, pageNo).
Set(file, pageNo) ==
  [file |-> file, pageNo |-> pageNo, pinCnt |-> 1,
   dirty |-> FALSE, valid |-> TRUE, refbit |-> TRUE]

\* ------------------------------------------------------------ BufHashTbl
\* The index is a function from (file, pageNo) to a frame id or NoFrame.
EmptyTable == [k \in Files \X PageIds |-> NoFrame]

lookup(h, file, pageNo) == h[<<file, pageNo>>]

insert(h, file, pageNo, frame) == [h EXCEPT ![<<file, pageNo>>] = frame]

remove(h, file, pageNo) == [h EXCEPT ![<<file, pageNo>>] = NoFrame]

\* ------------------------------------------------------------ events
Ev(e, file, pageNo, frame) ==
  [e |-> e, file |-> file, pageNo |-> pageNo, frame |-> frame]

\* ------------------------------------------------------------ clock
\* Mutant: the clock hand does not move.
advanceClock_Stays(c) == c

advanceClock(c) == (c + 1) % NumBufs

\* ------------------------------------------------------------ allocBuf
\* The result of a call of allocBuf(): the descriptor table d, the index h and
\* the clock hand c it leaves, the frame it returns (or the error it ends
\* with), the number adv of advanceClock() calls it made and the events ev.
AllocResult(d, h, c, frame, err, adv, ev) ==
  [d |-> d, h |-> h, c |-> c, frame |-> frame, err |-> err, adv |-> adv,
   ev |-> ev]

\* Mutant: the refbit is not cleared.
SecondChance_KeepsRefbit(d, c) == d

\* refbit set: the frame loses it and is passed over.
SecondChance(d, c) == [d EXCEPT ![c].refbit = FALSE]

\* Mutant: the pinCnt test is left out.
Busy_Never(b) == FALSE

\* A frame the sweep passes over because it is in use.
Busy(b) == b.pinCnt > 0

\* Mutant: the victim is not written back.
WriteBack_Never(d, c, ev) == ev

\* A dirty victim is written back through its file: the event names the
\* frame whose buffer, bufPool[c], is written.
WriteBack(d, c, ev) ==
  IF d[c].dirty
    THEN Append(ev, Ev("write", d[c].file, d[c].pageNo, c))
    ELSE ev

\* Mutant: the victim's descriptor is not cleared.
EvictDesc_NoClear(d, h, c) == d

\* The victim leaves the index and its descriptor is cleared; when the index
\* has no entry for it, remove() throws before Clear() and the exception is
\* swallowed.
EvictDesc(d, h, c) ==
  IF d[c].file # NoFile /\ lookup(h, d[c].file, d[c].pageNo) # NoFrame
    THEN [d EXCEPT ![c] = Clear]
    ELSE d

EvictIndex(d, h, c) ==
  IF d[c].file # NoFile /\ lookup(h, d[c].file, d[c].pageNo) # NoFrame
    THEN remove(h, d[c].file, d[c].pageNo)
    ELSE h

EvictEvents(d, h, c, ev) ==
  IF d[c].file # NoFile /\ lookup(h, d[c].file, d[c].pageNo) # NoFrame
    THEN Append(ev, Ev("clear", d[c].file, d[c].pageNo, c))
    ELSE ev

\* Mutant: the exception is thrown after any pass that selected nothing.
NoFrameUnpinned_Always(d) == TRUE

\* Mutant: the test is inverted, as the flag's name in the source suggests.
NoFrameUnpinned_Inverted(d) == \E k \in FrameIds : d[k].pinCnt = 0

\* After a pass that selected nothing: BufferExceededException is thrown
\* when no frame has pinCnt 0.
NoFrameUnpinned(d) == ~ \E k \in FrameIds : d[k].pinCnt = 0

\* i is the for loop's counter, sweeps the number of passes completed.
RECURSIVE allocBufLoop(_, _, _, _, _, _, _)
allocBufLoop(d, h, c, i, sweeps, adv, ev) ==
  IF i = NumBufs
    THEN IF NoFrameUnpinned(d)
           THEN AllocResult(d, h, c, NoFrame, "BufferExceeded", adv, ev)
           ELSE IF sweeps + 1 >= MaxSweeps
                  THEN AllocResult(d, h, c, NoFrame, "Diverged", adv, ev)
                  ELSE allocBufLoop(d, h, c, 0, sweeps + 1, adv, ev)
    ELSE LET c1 == advanceClock(c) IN
         IF ~ d[c1].valid
           THEN AllocResult(d, h, c1, c1, "ok", adv + 1, ev)
           ELSE IF d[c1].refbit
                  THEN allocBufLoop(SecondChance(d, c1), h, c1, i + 1, sweeps,
                                    adv + 1, ev)
                  ELSE IF Busy(d[c1])
                         THEN allocBufLoop(d, h, c1, i + 1, sweeps, adv + 1, ev)
                         ELSE AllocResult(EvictDesc(d, h, c1),
                                          EvictIndex(d, h, c1), c1, c1, "ok",
                                          adv + 1,
                                          EvictEvents(d, h, c1,
                                                      WriteBack(d, c1, ev)))

allocBuf(d, h, c, ev) == allocBufLoop(d, h, c, 0, 0, 0, ev)

\* ------------------------------------------------------------ the last call
Call(name, file, pageNo, dirty, err, frame, adv) ==
  [name |-> name, file |-> file, pageNo |-> pageNo, dirty |-> dirty,
   err |-> err, frame |-> frame, adv |-> adv]

\* ------------------------------------------------------------ construction
Init ==
  /\ bufDescTable = [k \in FrameIds |-> Clear]
  /\ hashTable = EmptyTable
  /\ clockHand = NumBufs - 1
  /\ disk \in [Files -> SUBSET PageIds]
  /\ op = Call("BufMgr", NoFile, InvalidPageNo, FALSE, "ok", NoFrame, 0)
  /\ io = <<>>
  /\ hist = <<>>

\* ------------------------------------------------------------ readPage
\* Mutant: refbit is set only when the page is loaded.
PinHit_NoRefbit(b) == [b EXCEPT !.pinCnt = @ + 1]

\* The page is in the pool: pinCnt++ and refbit = true.
PinHit(b) == [b EXCEPT !.pinCnt = @ + 1, !.refbit = TRUE]

\* The page is not in the pool: the frame allocBuf() returned is entered in
\* the index and Set(), and refbit = true.
LoadDesc(d, frame, file, pageNo) ==
  [d EXCEPT ![frame] = [Set(file, pageNo) EXCEPT !.refbit = TRUE]]

readPage(file, pageNo) ==
  LET id == lookup(hashTable, file, pageNo) IN
  IF id # NoFrame
    THEN /\ bufDescTable[id].pinCnt < MaxPin
         /\ bufDescTable' = [bufDescTable EXCEPT ![id] = PinHit(@)]
         /\ op' = Call("readPage", file, pageNo, FALSE, "ok", id, 0)
         /\ io' = <<>>
         /\ UNCHANGED <<hashTable, clockHand, disk>>
    ELSE IF pageNo \notin disk[file]
      THEN \* file->readPage(pageNo) throws before anything is touched
           /\ op' = Call("readPage", file, pageNo, FALSE, "InvalidPage",
                         NoFrame, 0)
           /\ io' = <<>>
           /\ UNCHANGED <<bufDescTable, hashTable, clockHand, disk>>
      ELSE LET r == allocBuf(bufDescTable, hashTable, clockHand,
                             <<Ev("read", file, pageNo, NoFrame)>>)
           IN  /\ clockHand' = r.c
               /\ UNCHANGED disk
               /\ IF r.err # "ok"
                    THEN /\ bufDescTable' = r.d
                         /\ hashTable' = r.h
                         /\ io' = r.ev
                         /\ op' = Call("readPage", file, pageNo, FALSE, r.err,
                                       NoFrame, r.adv)
                    ELSE /\ bufDescTable' = LoadDesc(r.d, r.frame, file, pageNo)
                         /\ hashTable' = insert(r.h, file, pageNo, r.frame)
                         /\ io' = Append(r.ev, Ev("load", file, pageNo, r.frame))
                         /\ op' = Call("readPage", file, pageNo, FALSE, "ok",
                                       r.frame, r.adv)

\* ------------------------------------------------------------ unPinPage
\* Mutant: pinCnt is not tested before it is decremented.
UnpinOutcome_NoCheck(d, frameId) == "ok"

\* Mutant: the HashNotFoundException of lookup() is not caught.
UnpinOutcome_Propagates(d, frameId) ==
  IF frameId = NoFrame
    THEN "HashNotFound"
    ELSE IF d[frameId].pinCnt = 0 THEN "NotPinned" ELSE "ok"

\* How the call ends: a page that is not in the index is no error, a page
\* in the index with pinCnt 0 is PageNotPinnedException.
UnpinOutcome(d, frameId) ==
  IF frameId = NoFrame
    THEN "ok"
    ELSE IF d[frameId].pinCnt = 0 THEN "NotPinned" ELSE "ok"

\* Mutant: the dirty bit is assigned the argument.
Unpin_AssignsDirty(b, dirty) ==
  [b EXCEPT !.pinCnt = @ - 1, !.dirty = dirty]

\* pinCnt-- and, when dirty is passed, dirty = true.
Unpin(b, dirty) ==
  [b EXCEPT !.pinCnt = @ - 1, !.dirty = IF dirty THEN TRUE ELSE @]

unPinPage(file, pageNo, dirty) ==
  LET frameId == lookup(hashTable, file, pageNo)
      err == UnpinOutcome(bufDescTable, frameId)
  IN  /\ io' = <<>>
      /\ op' = Call("unPinPage", file, pageNo, dirty, err, frameId, 0)
      /\ UNCHANGED <<hashTable, clockHand, disk>>
      /\ IF frameId # NoFrame /\ err = "ok"
           THEN bufDescTable' =
                  [bufDescTable EXCEPT ![frameId] = Unpin(@, dirty)]
           ELSE UNCHANGED bufDescTable

\* ------------------------------------------------------------ flushFile
FlushResult(d, h, err, frame, ev) ==
  [d |-> d, h |-> h, err |-> err, frame |-> frame, ev |-> ev]

\* Mutant: a dirty frame of the file is not written back.
FlushWrite_Never(b, k, ev) == ev

\* A dirty frame of the file is written back and its dirty bit reset.
FlushWrite(b, k, ev) ==
  IF b.dirty THEN Append(ev, Ev("write", b.file, b.pageNo, k)) ELSE ev

\* The scan of frames k, k+1, ... numBufs-1 for the frames of file.
RECURSIVE flushLoop(_, _, _, _, _)
flushLoop(d, h, k, file, ev) ==
  IF k = NumBufs
    THEN FlushResult(d, h, "ok", NoFrame, ev)
    ELSE IF d[k].file # file
      THEN flushLoop(d, h, k + 1, file, ev)
      ELSE IF d[k].pinCnt > 0
        THEN FlushResult(d, h, "PagePinned", k, ev)
        ELSE IF ~ d[k].valid
          THEN FlushResult(d, h, "BadBuffer", k, ev)
          ELSE IF lookup(h, file, d[k].pageNo) = NoFrame
            THEN \* remove() throws after the write-back
                 FlushResult([d EXCEPT ![k].dirty = FALSE], h, "HashNotFound",
                             k, FlushWrite(d[k], k, ev))
            ELSE flushLoop([d EXCEPT ![k] = Clear],
                           remove(h, file, d[k].pageNo), k + 1, file,
                           Append(FlushWrite(d[k], k, ev),
                                  Ev("clear", file, d[k].pageNo, k)))

flushFile(file) ==
  LET r == flushLoop(bufDescTable, hashTable, 0, file, <<>>) IN
  /\ bufDescTable' = r.d
  /\ hashTable' = r.h
  /\ io' = r.ev
  /\ op' = Call("flushFile", file, InvalidPageNo, FALSE, r.err, r.frame, 0)
  /\ UNCHANGED <<clockHand, disk>>

\* ------------------------------------------------------------ allocPage
\* file->allocatePage() hands out a page number the file does not hold yet.
allocPage(file) ==
  \E newPageId \in PageIds \ disk[file] :
    LET r == allocBuf(bufDescTable, hashTable, clockHand,
                      <<Ev("alloc", file, newPageId, NoFrame)>>)
    IN  /\ disk' = [disk EXCEPT ![file] = @ \cup {newPageId}]
        /\ clockHand' = r.c
        /\ IF r.err # "ok"
             THEN /\ bufDescTable' = r.d
                  /\ hashTable' = r.h
                  /\ io' = r.ev
                  /\ op' = Call("allocPage", file, newPageId, FALSE, r.err,
                                NoFrame, r.adv)
             ELSE IF lookup(r.h, file, newPageId) # NoFrame
               THEN \* insert() throws: the key is already in the index
                    /\ bufDescTable' = r.d
                    /\ hashTable' = r.h
                    /\ io' = r.ev \o <<Ev("read", file, newPageId, NoFrame),
                                       Ev("load", file, newPageId, r.frame)>>
                    /\ op' = Call("allocPage", file, newPageId, FALSE,
                                  "HashAlreadyPresent", r.frame, r.adv)
               ELSE /\ bufDescTable' =
                         [r.d EXCEPT ![r.frame] = Set(file, newPageId)]
                    /\ hashTable' = insert(r.h, file, newPageId, r.frame)
                    /\ io' = r.ev \o <<Ev("read", file, newPageId, NoFrame),
                                       Ev("load", file, newPageId, r.frame)>>
                    /\ op' = Call("allocPage", file, newPageId, FALSE, "ok",
                                  r.frame, r.adv)

\* ------------------------------------------------------------ disposePage
\* Mutant: the descriptor is not cleared.
DisposeDesc_KeepsFrame(d, frameId) == d

\* Mutant: only the valid bit is reset.
DisposeDesc_ValidOnly(d, frameId) == [d EXCEPT ![frameId].valid = FALSE]

\* The frame of a resident page is cleared, whatever its pinCnt.
DisposeDesc(d, frameId) == [d EXCEPT ![frameId] = Clear]

\* Mutant: the index entry is left behind.
DisposeIndex_KeepsEntry(h, file, pageNo) == h

DisposeIndex(h, file, pageNo) == remove(h, file, pageNo)

\* Mutant: the page is deleted from the file only when it was resident.
DisposeDisk_OnlyResident(dk, file, pageNo, frameId) ==
  IF frameId = NoFrame THEN dk ELSE [dk EXCEPT ![file] = @ \ {pageNo}]

\* file->deletePage(PageNo) is called whether or not the page was resident.
DisposeDisk(dk, file, pageNo, frameId) == [dk EXCEPT ![file] = @ \ {pageNo}]

disposePage(file, pageNo) ==
  LET frameId == lookup(hashTable, file, pageNo) IN
  /\ disk' = DisposeDisk(disk, file, pageNo, frameId)
  /\ op' = Call("disposePage", file, pageNo, FALSE, "ok", frameId, 0)
  /\ UNCHANGED clockHand
  /\ IF frameId # NoFrame
       THEN /\ bufDescTable' = DisposeDesc(bufDescTable, frameId)
            /\ hashTable' = DisposeIndex(hashTable, file, pageNo)
            /\ io' = <<Ev("clear", file, pageNo, frameId),
                       Ev("delete", file, pageNo, NoFrame)>>
       ELSE /\ UNCHANGED <<bufDescTable, hashTable>>
            /\ io' = <<Ev("delete", file, pageNo, NoFrame)>>

Next ==
  \/ \E file \in Files, pageNo \in PageIds :
       readPage(file, pageNo) /\ UNCHANGED hist
  \/ \E file \in Files, pageNo \in PageIds, dirty \in BOOLEAN :
       unPinPage(file, pageNo, dirty) /\ UNCHANGED hist
  \/ \E file \in Files : flushFile(file) /\ UNCHANGED hist
  \/ \E file \in Files : allocPage(file) /\ UNCHANGED hist
  \/ \E file \in Files, pageNo \in PageIds :
       disposePage(file, pageNo) /\ UNCHANGED hist

Spec == Init /\ [][Next]_vars

\* ------------------------------------------------------------ scenario
\* A client that works on one file of two pages through a fresh buffer
\* manager; hist is the sequence of the calls it has made, with what each
\* call returned.
ScenarioFile == "F"

ScenarioInit ==
  /\ bufDescTable = [k \in FrameIds |-> Clear]
  /\ hashTable = EmptyTable
  /\ clockHand = NumBufs - 1
  /\ disk = [file \in Files |-> IF file = ScenarioFile THEN PageIds ELSE {}]
  /\ op = Call("BufMgr", NoFile, InvalidPageNo, FALSE, "ok", NoFrame, 0)
  /\ io = <<>>
  /\ hist = <<>>

Record ==
  /\ Len(hist) < MaxHist
  /\ hist' = Append(hist, op')

ScenarioNext ==
  \/ \E pageNo \in PageIds : readPage(ScenarioFile, pageNo) /\ Record
  \/ \E pageNo \in PageIds, dirty \in BOOLEAN :
       unPinPage(ScenarioFile, pageNo, dirty) /\ Record
  \/ flushFile(ScenarioFile) /\ Record
  \/ allocPage(ScenarioFile) /\ Record
  \/ \E pageNo \in PageIds : disposePage(ScenarioFile, pageNo) /\ Record

ScenarioSpec == ScenarioInit /\ [][ScenarioNext]_vars

\* ======================================================================
\* Properties
\* ======================================================================
Keys == Files \X PageIds

\* The call the step made was a readPage() of a page that exists in the file
\* and is not in the index, or an allocPage(): the calls that reach allocBuf().
CallsAllocBuf ==
  \/ /\ op'.name = "readPage"
     /\ lookup(hashTable, op'.file, op'.pageNo) = NoFrame
     /\ op'.pageNo \in disk[op'.file]
  \/ op'.name = "allocPage"

AllPinned == \A k \in FrameIds : bufDescTable[k].pinCnt > 0

\* C1: after any sequence of calls, failing ones included, a frame is valid
\* with owner F and page P if and only if the index maps (F,P) to that frame.
C1_IndexMirrorsValidFrames ==
  \A k \in FrameIds : \A key \in Keys :
    (/\ bufDescTable[k].valid
     /\ bufDescTable[k].file = key[1]
     /\ bufDescTable[k].pageNo = key[2])
    <=> (hashTable[key] = k)

\* A failed flushFile() that cleared one frame and stopped at a pinned one.
C1_Witness ==
  /\ op.name = "flushFile"
  /\ op.err = "PagePinned"
  /\ \E i \in DOMAIN io : io[i].e = "clear"
  /\ \E k \in FrameIds : bufDescTable[k].valid

\* C2 as claimed: a frame with an outstanding pin (pinCnt > 0) is, after any
\* public operation, still valid, still the frame of the same (file, page) in
\* the descriptor and in the index, and not the frame allocBuf() handed out.
StaysPinnedPage(k) ==
  /\ bufDescTable'[k].valid
  /\ bufDescTable'[k].file = bufDescTable[k].file
  /\ bufDescTable'[k].pageNo = bufDescTable[k].pageNo
  /\ hashTable'[<<bufDescTable[k].file, bufDescTable[k].pageNo>>] = k
  /\ ~ (op'.adv > 0 /\ op'.frame = k)

C2_Original ==
  [][\A k \in FrameIds : bufDescTable[k].pinCnt > 0 => StaysPinnedPage(k)]_vars

\* C2 as amended: the same, for every operation but a disposePage() of the
\* pinned page itself.
C2_PinnedFrameKeptUnlessDisposed ==
  [][\A k \in FrameIds :
       (/\ bufDescTable[k].pinCnt > 0
        /\ ~ (/\ op'.name = "disposePage"
              /\ op'.file = bufDescTable[k].file
              /\ op'.pageNo = bufDescTable[k].pageNo))
       => StaysPinnedPage(k)]_vars

\* allocBuf() swept past a pinned frame and handed out another one.
C2_Witness ==
  /\ op.name \in {"readPage", "allocPage"}
  /\ op.err = "ok"
  /\ op.adv > 1
  /\ \E k \in FrameIds : k # op.frame /\ bufDescTable[k].pinCnt > 0

\* C3: every frame that is not valid has pinCnt 0, dirty false and no owning
\* file; every frame with pinCnt > 0 is valid.
C3_InvalidFrameIsClear ==
  \A k \in FrameIds :
    /\ ~ bufDescTable[k].valid =>
         /\ bufDescTable[k].pinCnt = 0
         /\ ~ bufDescTable[k].dirty
         /\ bufDescTable[k].file = NoFile
    /\ bufDescTable[k].pinCnt > 0 => bufDescTable[k].valid

\* A pinned page was disposed: its frame is invalid again.
C3_Witness ==
  /\ op.name = "disposePage"
  /\ op.frame # NoFrame
  /\ ~ bufDescTable[op.frame].valid
  /\ \E k \in FrameIds : bufDescTable[k].pinCnt > 0

\* C4: with all numBufs frames pinned, a fetch of a page that is not resident
\* and an allocate both fail with BufferExceededException, raised after
\* exactly numBufs advances of the clock hand.
C4_AllPinnedFailsAfterOneSweep ==
  [][(AllPinned /\ CallsAllocBuf)
       => (op'.err = "BufferExceeded" /\ op'.adv = NumBufs)]_vars

C4_Witness ==
  /\ op.name = "allocPage"
  /\ op.err = "BufferExceeded"
  /\ op.adv = NumBufs
  /\ \A k \in FrameIds : bufDescTable[k].pinCnt > 0

\* C5 as claimed: a fetch or allocate that fails with BufferExceededException
\* because all frames are pinned changes no descriptor field, no index
\* entry, not the clock hand and not the pages of the file.
C5_Original ==
  [][(AllPinned /\ CallsAllocBuf /\ op'.err = "BufferExceeded")
       => /\ bufDescTable' = bufDescTable
          /\ hashTable' = hashTable
          /\ clockHand' = clockHand
          /\ disk' = disk]_vars

\* C5 as amended: such a call leaves pinCnt, dirty, valid, owner and page of
\* every frame, the index and the clock hand as they were; every refbit is
\* false afterwards; a failing fetch leaves the file's pages unchanged and a
\* failing allocate has added the newly allocated page to the file.
C5_FailedAllocClearsRefbitsOnly ==
  [][(AllPinned /\ CallsAllocBuf /\ op'.err = "BufferExceeded")
       => /\ \A k \in FrameIds :
               bufDescTable'[k] = [bufDescTable[k] EXCEPT !.refbit = FALSE]
          /\ hashTable' = hashTable
          /\ clockHand' = clockHand
          /\ op'.name = "readPage" => disk' = disk
          /\ op'.name = "allocPage" =>
               /\ op'.pageNo \notin disk[op'.file]
               /\ disk' = [disk EXCEPT ![op'.file] = @ \cup {op'.pageNo}]]_vars

\* A failed call that found refbits set and left them cleared.
C5_Witness ==
  /\ op.name = "readPage"
  /\ op.err = "BufferExceeded"
  /\ \A k \in FrameIds : bufDescTable[k].pinCnt > 0 /\ ~ bufDescTable[k].refbit

\* C6: with fewer than numBufs frames pinned, allocBuf() returns a frame: it
\* neither raises BufferExceededException nor keeps sweeping ("Diverged"
\* stands for a call that has not returned after MaxSweeps passes).
C6_UnpinnedFrameIsFound ==
  [][(~ AllPinned /\ CallsAllocBuf)
       => /\ op'.err \notin {"BufferExceeded", "Diverged"}
          /\ op'.frame \in FrameIds
          /\ op'.adv >= 1]_vars

\* A call that needed a second pass: some frames pinned, none invalid, every
\* unpinned one with its refbit set.
C6_Witness ==
  /\ op.name \in {"readPage", "allocPage"}
  /\ op.err = "ok"
  /\ op.adv > NumBufs
  /\ \E k \in FrameIds : k # op.frame /\ bufDescTable[k].pinCnt > 0

\* The places in a call's events of the events of one kind on one frame.
EventsAt(ev, e, frame) ==
  {i \in DOMAIN ev : ev[i].e = e /\ ev[i].frame = frame}

Writes(ev) == {i \in DOMAIN ev : ev[i].e = "write"}

\* The step evicted the valid frame k: allocBuf() returned it.
Evicts(k) ==
  /\ op'.name \in {"readPage", "allocPage"}
  /\ op'.err = "ok"
  /\ op'.adv > 0
  /\ op'.frame = k
  /\ bufDescTable[k].valid

\* C7: an eviction of a dirty frame issues exactly one writePage, of that
\* frame's buffer to its owning file, before the frame is cleared and before
\* the new page is loaded into it; an eviction of a clean frame issues none.
C7_DirtyVictimWrittenOnceFirst ==
  [][\A k \in FrameIds : Evicts(k) =>
       IF bufDescTable[k].dirty
         THEN /\ Cardinality(Writes(io')) = 1
              /\ \E w \in Writes(io') :
                   /\ io'[w] = Ev("write", bufDescTable[k].file,
                                  bufDescTable[k].pageNo, k)
                   /\ EventsAt(io', "clear", k) # {}
                   /\ EventsAt(io', "load", k) # {}
                   /\ \A i \in EventsAt(io', "clear", k) : w < i
                   /\ \A i \in EventsAt(io', "load", k) : w < i
         ELSE Writes(io') = {}]_vars

C7_Witness ==
  /\ op.name = "readPage"
  /\ op.err = "ok"
  /\ Cardinality(Writes(io)) = 1
  /\ \E w \in Writes(io) : io[w].frame = op.frame
  /\ EventsAt(io, "load", op.frame) # {}

\* C8: a fetch of a resident page returns the frame the index maps it to,
\* adds exactly 1 to its pinCnt, sets its refbit, reads nothing from the
\* file and changes nothing else; a second fetch right after a fetch that
\* left pinCnt 1 returns the same frame with pinCnt 2.
C8_FetchHitPinsOnly ==
  [][(op'.name = "readPage"
      /\ lookup(hashTable, op'.file, op'.pageNo) # NoFrame)
       => LET k == lookup(hashTable, op'.file, op'.pageNo) IN
          /\ op'.err = "ok"
          /\ op'.frame = k
          /\ bufDescTable'[k] =
               [bufDescTable[k] EXCEPT !.pinCnt = bufDescTable[k].pinCnt + 1,
                                       !.refbit = TRUE]
          /\ \A j \in FrameIds \ {k} : bufDescTable'[j] = bufDescTable[j]
          /\ io' = <<>>
          /\ op'.adv = 0
          /\ hashTable' = hashTable
          /\ clockHand' = clockHand
          /\ disk' = disk
          /\ (/\ op.name = "readPage"
              /\ op.err = "ok"
              /\ op.file = op'.file
              /\ op.pageNo = op'.pageNo
              /\ bufDescTable[op.frame].pinCnt = 1)
             => (op'.frame = op.frame /\ bufDescTable'[k].pinCnt = 2)]_vars

\* The second of two fetches of a page, whose refbit the sweep of another
\* call had not cleared in between.
C8_Witness ==
  /\ op.name = "readPage"
  /\ op.err = "ok"
  /\ op.adv = 0
  /\ bufDescTable[op.frame].pinCnt = 2
  /\ bufDescTable[op.frame].dirty

\* C9: an unpin of a resident page whose pinCnt is 0 fails with
\* PageNotPinnedException and changes nothing, whatever the dirty argument;
\* so the unpin after the one that released the last pin fails.
C9_SurplusUnpinFails ==
  [][(op'.name = "unPinPage"
      /\ lookup(hashTable, op'.file, op'.pageNo) # NoFrame
      /\ bufDescTable[lookup(hashTable, op'.file, op'.pageNo)].pinCnt = 0)
       => /\ op'.err = "NotPinned"
          /\ op'.frame = lookup(hashTable, op'.file, op'.pageNo)
          /\ bufDescTable' = bufDescTable
          /\ hashTable' = hashTable
          /\ clockHand' = clockHand
          /\ disk' = disk]_vars

\* The unpin that follows the unpin matching the only fetch, with dirty
\* passed and the frame left clean.
C9_Witness ==
  /\ op.name = "unPinPage"
  /\ op.err = "NotPinned"
  /\ op.dirty
  /\ bufDescTable[op.frame].valid
  /\ bufDescTable[op.frame].pinCnt = 0
  /\ ~ bufDescTable[op.frame].dirty

\* C10: an unpin of a (file, page) that is not in the index raises nothing
\* and changes no descriptor, no index entry and not the clock hand,
\* whatever the dirty argument.
C10_UnpinAbsentIsNoOp ==
  [][(op'.name = "unPinPage"
      /\ lookup(hashTable, op'.file, op'.pageNo) = NoFrame)
       => /\ op'.err = "ok"
          /\ bufDescTable' = bufDescTable
          /\ hashTable' = hashTable
          /\ clockHand' = clockHand
          /\ disk' = disk]_vars

\* An unpin, with dirty passed, of a page that was evicted, flushed or
\* disposed while other pages are resident.
C10_Witness ==
  /\ op.name = "unPinPage"
  /\ op.err = "ok"
  /\ op.frame = NoFrame
  /\ op.dirty
  /\ op.pageNo \in disk[op.file]
  /\ \E k \in FrameIds : bufDescTable[k].valid

\* The frames of file, in the state before the step.
FramesOf(file) == {k \in FrameIds : bufDescTable[k].file = file}

PinnedOf(file) == {k \in FramesOf(file) : bufDescTable[k].pinCnt > 0}

\* The step flushed frame k: it is cleared and out of the index, and its
\* buffer was written through the file once, before that, if it was dirty
\* and not at all if it was clean.
Flushed(k) ==
  /\ bufDescTable'[k] = Clear
  /\ hashTable'[<<bufDescTable[k].file, bufDescTable[k].pageNo>>] = NoFrame
  /\ Cardinality(EventsAt(io', "clear", k)) = 1
  /\ IF bufDescTable[k].dirty
       THEN /\ Cardinality(EventsAt(io', "write", k)) = 1
            /\ \A w \in EventsAt(io', "write", k) :
                 /\ io'[w] = Ev("write", bufDescTable[k].file,
                                bufDescTable[k].pageNo, k)
                 /\ \A i \in EventsAt(io', "clear", k) : w < i
       ELSE EventsAt(io', "write", k) = {}

\* The step left frame k and its index entry alone.
Untouched(k) ==
  /\ bufDescTable'[k] = bufDescTable[k]
  /\ \A key \in Keys : hashTable[key] = k => hashTable'[key] = k
  /\ EventsAt(io', "write", k) = {}
  /\ EventsAt(io', "clear", k) = {}

Reach(k) == ((k - clockHand - 1 + NumBufs) % NumBufs) + 1

\* C12: a dispose of a resident page with pinCnt 0 removes its index entry,
\* resets its frame to the invalid state and deletes the page in the file;
\* and allocBuf() selects an invalid frame as soon as the clock hand is on
\* it, without any write-back.
C12_DisposedFrameIsNextVictim ==
  [][/\ (/\ op'.name = "disposePage"
         /\ lookup(hashTable, op'.file, op'.pageNo) # NoFrame
         /\ bufDescTable[lookup(hashTable, op'.file, op'.pageNo)].pinCnt = 0)
        => LET k == lookup(hashTable, op'.file, op'.pageNo) IN
           /\ op'.err = "ok"
           /\ hashTable' = [hashTable EXCEPT ![<<op'.file, op'.pageNo>>] = NoFrame]
           /\ bufDescTable' = [bufDescTable EXCEPT ![k] = Clear]
           /\ ~ bufDescTable'[k].valid /\ ~ bufDescTable'[k].refbit
           /\ disk' = [disk EXCEPT ![op'.file] = @ \ {op'.pageNo}]
           /\ clockHand' = clockHand
           /\ Writes(io') = {}
     /\ CallsAllocBuf
        => \A k \in FrameIds :
             (~ bufDescTable[k].valid /\ op'.adv >= Reach(k))
             => /\ op'.err = "ok"
                /\ op'.frame = k
                /\ op'.adv = Reach(k)
                /\ Writes(io') = {}
                /\ bufDescTable'[k].valid]_vars

\* The hand went all the way round to an invalid frame and took it, past a
\* dirty unpinned frame that kept its page.
C12_Witness ==
  /\ op.name \in {"readPage", "allocPage"}
  /\ op.err = "ok"
  /\ op.adv = NumBufs
  /\ EventsAt(io, "clear", op.frame) = {}
  /\ Writes(io) = {}
  /\ \E k \in FrameIds \ {op.frame} :
       /\ bufDescTable[k].valid
       /\ bufDescTable[k].dirty
       /\ bufDescTable[k].pinCnt = 0

\* C13: a dispose of a page that is not resident raises no error, deletes
\* the page in the file and changes no descriptor, no index entry and not
\* the clock hand.
C13_DisposeAbsentOnlyDeletes ==
  [][(op'.name = "disposePage"
      /\ lookup(hashTable, op'.file, op'.pageNo) = NoFrame)
       => /\ op'.err = "ok"
          /\ io' = <<Ev("delete", op'.file, op'.pageNo, NoFrame)>>
          /\ disk' = [disk EXCEPT ![op'.file] = @ \ {op'.pageNo}]
          /\ bufDescTable' = bufDescTable
          /\ hashTable' = hashTable
          /\ clockHand' = clockHand]_vars

\* A page that is in no frame was disposed while another page is resident.
C13_Witness ==
  /\ op.name = "disposePage"
  /\ op.err = "ok"
  /\ op.frame = NoFrame
  /\ io = <<Ev("delete", op.file, op.pageNo, NoFrame)>>
  /\ op.pageNo \notin disk[op.file]
  /\ \E k \in FrameIds : bufDescTable[k].valid /\ bufDescTable[k].file = op.file

\* C14: for every (file, page) at most one frame is valid with that owner
\* and page.
C14_OneFramePerPage ==
  \A j \in FrameIds : \A k \in FrameIds \ {j} :
    (bufDescTable[j].valid /\ bufDescTable[k].valid)
    => \/ bufDescTable[j].file # bufDescTable[k].file
       \/ bufDescTable[j].pageNo # bufDescTable[k].pageNo

\* A page was allocated while another page of the same file is resident.
C14_Witness ==
  /\ op.name = "allocPage"
  /\ op.err = "ok"
  /\ \E k \in FrameIds \ {op.frame} :
       /\ bufDescTable[k].valid
       /\ bufDescTable[k].file = op.file
       /\ bufDescTable[k].pageNo # op.pageNo

C17_UnpinDecrementsKeepsDirty ==
  [][(op'.name = "unPinPage"
      /\ lookup(hashTable, op'.file, op'.pageNo) # NoFrame
      /\ bufDescTable[lookup(hashTable, op'.file, op'.pageNo)].pinCnt > 0)
       => LET k == lookup(hashTable, op'.file, op'.pageNo) IN
          /\ op'.err = "ok"
          /\ bufDescTable' =
               [bufDescTable EXCEPT
                  ![k] = [bufDescTable[k] EXCEPT
                            !.pinCnt = bufDescTable[k].pinCnt - 1,
                            !.dirty = bufDescTable[k].dirty \/ op'.dirty]]
          /\ hashTable' = hashTable
          /\ clockHand' = clockHand
          /\ disk' = disk]_vars

\* An unpin with dirty = false of a frame an earlier unpin had made dirty.
C17_Witness ==
  /\ op.name = "unPinPage"
  /\ op.err = "ok"
  /\ op.frame # NoFrame
  /\ ~ op.dirty
  /\ bufDescTable[op.frame].dirty
  /\ bufDescTable[op.frame].pinCnt = 0

\* C18: when no frame of file F is pinned, flushFile(F) succeeds; afterwards
\* no frame is owned by F and the index has no entry of F; each frame of F
\* was written back once if dirty and not at all if clean; the frames and
\* index entries of other files and the clock hand are unchanged.
C18_FlushUnpinnedFile ==
  [][(op'.name = "flushFile" /\ PinnedOf(op'.file) = {})
       => /\ op'.err = "ok"
          /\ \A k \in FrameIds :
               IF k \in FramesOf(op'.file) THEN Flushed(k) ELSE Untouched(k)
          /\ \A k \in FrameIds : bufDescTable'[k].file # op'.file
          /\ \A key \in Keys :
               hashTable'[key] =
                 IF key[1] = op'.file THEN NoFrame ELSE hashTable[key]
          /\ Cardinality(Writes(io')) =
               Cardinality({k \in FramesOf(op'.file) : bufDescTable[k].dirty})
          /\ clockHand' = clockHand
          /\ disk' = disk]_vars

\* A flushFile() that wrote a dirty frame back while a frame of the other
\* file stayed pinned.
C18_Witness ==
  /\ op.name = "flushFile"
  /\ op.err = "ok"
  /\ Writes(io) # {}
  /\ \E k \in FrameIds :
       /\ bufDescTable[k].valid
       /\ bufDescTable[k].file # op.file
       /\ bufDescTable[k].pinCnt > 0

\* What allocBuf() returns when it is called in the state before the step.
Victim == allocBuf(bufDescTable, hashTable, clockHand, <<>>)

\* C19: allocBuf() returns only a frame that was invalid, or valid with
\* pinCnt 0 and refbit false, when the clock hand came to it: a frame with
\* pinCnt > 0 is never returned; a frame the hand finds with refbit set
\* loses the refbit and is passed over at that step; and the frame returned
\* is invalid and in no index entry when allocBuf() returns.
C19_VictimIsUnpinnedUnreferenced ==
  [][(CallsAllocBuf /\ op'.frame \in FrameIds)
       => LET f == op'.frame IN
          /\ Victim.frame = f /\ Victim.adv = op'.adv
          /\ bufDescTable[f].pinCnt = 0
          /\ IF bufDescTable[f].valid /\ bufDescTable[f].refbit
               THEN op'.adv = Reach(f) + NumBufs
               ELSE op'.adv = Reach(f)
          /\ \A k \in FrameIds \ {f} :
               bufDescTable'[k] =
                 IF Reach(k) <= op'.adv
                   THEN [bufDescTable[k] EXCEPT !.refbit = FALSE]
                   ELSE bufDescTable[k]
          /\ ~ Victim.d[f].valid
          /\ \A key \in Keys : Victim.h[key] # f
          /\ \A key \in Keys :
               hashTable'[key] = f <=> key = <<op'.file, op'.pageNo>>]_vars

\* A victim found in the second pass, after it lost its refbit in the
\* first, next to a pinned frame that was passed over twice.
C19_Witness ==
  /\ op.name \in {"readPage", "allocPage"}
  /\ op.err = "ok"
  /\ op.adv > NumBufs
  /\ EventsAt(io, "clear", op.frame) # {}
  /\ \E k \in FrameIds \ {op.frame} :
       bufDescTable[k].pinCnt > 0 /\ ~ bufDescTable[k].refbit

\* C20: a call of allocBuf() makes at most 2 * numBufs advances of the clock
\* hand before it returns a frame or throws: the exception comes after the
\* first pass, and a second pass always selects a frame.
C20_AtMostTwoSweeps ==
  [][CallsAllocBuf
       => /\ op'.adv <= 2 * NumBufs
          /\ op'.err \in {"ok", "BufferExceeded"}
          /\ op'.err = "BufferExceeded" => op'.adv = NumBufs
          /\ op'.adv > NumBufs => (op'.err = "ok" /\ op'.frame \in FrameIds)]_vars

\* A call that returned a frame at the last step of its second pass.
C20_Witness ==
  /\ op.name \in {"readPage", "allocPage"}
  /\ op.err = "ok"
  /\ op.adv = 2 * NumBufs

\* The calls of the scenario, as they stand in hist.
Fetched(c, pageNo) ==
  /\ c.name = "readPage"
  /\ c.file = ScenarioFile
  /\ c.pageNo = pageNo
  /\ c.err = "ok"

Unpinned(c, pageNo) ==
  /\ c.name = "unPinPage"
  /\ c.file = ScenarioFile
  /\ c.pageNo = pageNo
  /\ c.err = "ok"

FetchedBoth ==
  /\ Len(hist) >= 2
  /\ Fetched(hist[1], 0)
  /\ Fetched(hist[2], 1)

FetchedUnpinnedFetched ==
  /\ Len(hist) = 5
  /\ FetchedBoth
  /\ \/ Unpinned(hist[3], 0) /\ Unpinned(hist[4], 1)
     \/ Unpinned(hist[3], 1) /\ Unpinned(hist[4], 0)
  /\ Fetched(hist[5], 0)

\* C16: on a fresh pool (clock hand at numBufs - 1) and one file, the fetch
\* of page 0 lands in frame 0 with pinCnt 1 and the fetch of page 1 in frame
\* 1 with pinCnt 1; after both are unpinned, a fetch of page 0 returns frame
\* 0 with pinCnt 1, evicts nothing, leaves the clock hand where it was and
\* reads nothing from the file.
C16_FreshPoolScenario ==
  /\ (Len(hist) >= 1 /\ Fetched(hist[1], 0))
       => /\ hist[1].frame = 0
          /\ Len(hist) = 1 => /\ bufDescTable[0].pinCnt = 1
                              /\ hashTable[<<ScenarioFile, 0>>] = 0
  /\ FetchedBoth
       => /\ hist[2].frame = 1
          /\ Len(hist) = 2 => /\ bufDescTable[0].pinCnt = 1
                              /\ bufDescTable[1].pinCnt = 1
                              /\ hashTable[<<ScenarioFile, 1>>] = 1
                              /\ clockHand = 1
  /\ FetchedUnpinnedFetched
       => /\ op = hist[5]
          /\ op.frame = 0
          /\ op.adv = 0
          /\ clockHand = 1
          /\ io = <<>>
          /\ bufDescTable[0].pinCnt = 1
          /\ bufDescTable[1].pinCnt = 0
          /\ hashTable[<<ScenarioFile, 0>>] = 0
          /\ hashTable[<<ScenarioFile, 1>>] = 1
          /\ \A k \in {0, 1} :
               /\ bufDescTable[k].valid
               /\ bufDescTable[k].file = ScenarioFile
               /\ bufDescTable[k].pageNo = k

\* The five calls of the scenario have been made.
C16_Witness == FetchedUnpinnedFetched

====
